---- MODULE Spec2Model ----
(***************************************************************************)
(* Model of baseballcode24.py: a Streamlit script that fetches a season's  *)
(* batting table (cached per year for one hour), filters it by plate       *)
(* appearances, derives OPS and projects the display columns, filters by   *)
(* team and renders the leaders.                                           *)
(*                                                                         *)
(* A DataFrame is a record [cols, rows]: cols is the set of column names,  *)
(* rows the sequence of rows, each row a record over cols plus "idx", the  *)
(* row's index label.  Rates are integers in thousandths (OBP 300 = .300), *)
(* WAR in tenths.                                                          *)
(***************************************************************************)
EXTENDS Integers, Sequences, FiniteSets, TLC

\* ------------------------------------------------------------------ bounds
MaxRows == 3
NumYears == 2
TickStep == 1800

\* ------------------------------------------------------- program constants
ttl == 3600
FirstYear == 1900
min_value == 1
max_value == 174
value == 100

NaN == "NaN"
KeyError == [raised |-> "KeyError"]
None == [none |-> TRUE]

\* ---------------------------------------------------------------- tables
AllCols == {"Name", "Team", "PA", "OBP", "SLG", "WAR", "HR", "AVG", "G"}
NameOf == <<"A", "B", "C", "D", "E">>
TeamNames == {"BOS", "NYY"}
TeamOrder == <<"BOS", "NYY">>
PAValues == {50, value, max_value}

EmptyFrame == [cols |-> {}, rows |-> <<>>]

Project(r, cs) == [c \in (cs \cup {"idx"}) |-> r[c]]

FullRow(i, pa, team) ==
    [idx |-> i, Name |-> NameOf[i], Team |-> team, PA |-> pa,
     OBP |-> 300 + 50 * (i - 1), SLG |-> 450 + 50 * (i - 1),
     WAR |-> 30 - 10 * (i - 1), HR |-> 10 - 5 * ((i - 1) % 2),
     AVG |-> 250 + 30 * (i - 1), G |-> 100]

MkFrame(cs, pas, tms) ==
    [cols |-> cs,
     rows |-> [i \in 1..Len(pas) |-> Project(FullRow(i, pas[i], tms[i]), cs)]]

ColSets == {AllCols, AllCols \ {"OBP"}, AllCols \ {"SLG"}, AllCols \ {"AVG", "G"}}

Frames ==
    {EmptyFrame} \cup
    UNION {{MkFrame(cs, pas, tms) :
               cs \in ColSets, pas \in [1..n -> PAValues],
               tms \in [1..n -> TeamNames \cup {NaN}]} : n \in 1..MaxRows}

\* DataFrame.empty: some axis has length 0
empty(df) == Len(df.rows) = 0 \/ df.cols = {}

IsFrame(x) == "cols" \in DOMAIN x

\* ------------------------------------------------------- pure operations

\* df[df["PA"] >= min_pa]
filterByPAStrict(df, m) ==
    IF "PA" \notin df.cols THEN KeyError
    ELSE [cols |-> df.cols, rows |-> SelectSeq(df.rows, LAMBDA r : r.PA > m)]

filterByPA(df, m) ==
    IF "PA" \notin df.cols THEN KeyError
    ELSE [cols |-> df.cols, rows |-> SelectSeq(df.rows, LAMBDA r : r.PA >= m)]

\* df["OPS"] = df["OBP"] + df["SLG"], on the frame passed in
withOPS(df) ==
    [cols |-> df.cols \cup {"OPS"},
     rows |-> [i \in 1..Len(df.rows) |->
                 [c \in DOMAIN df.rows[i] \cup {"OPS"} |->
                    IF c = "OPS" THEN df.rows[i].OBP + df.rows[i].SLG
                    ELSE df.rows[i][c]]]]

display_cols == {"Name", "WAR", "OPS", "HR", "AVG", "Team"}

\* what clean_data returns
clean_dataNoGuard(df) ==
    IF ~({"OBP", "SLG"} \subseteq df.cols) THEN KeyError
    ELSE LET w == withOPS(df)
             available_cols == display_cols \cap w.cols
         IN [cols |-> available_cols,
             rows |-> [i \in 1..Len(w.rows) |-> Project(w.rows[i], available_cols)]]

clean_data(df) ==
    IF ~empty(df)
    THEN IF ~({"OBP", "SLG"} \subseteq df.cols) THEN KeyError
         ELSE LET w == withOPS(df)
                  available_cols == display_cols \cap w.cols
              IN [cols |-> available_cols,
                  rows |-> [i \in 1..Len(w.rows) |-> Project(w.rows[i], available_cols)]]
    ELSE df

\* the frame passed to clean_data, as the call leaves it
clean_data_arg(df) ==
    IF ~empty(df) /\ {"OBP", "SLG"} \subseteq df.cols THEN withOPS(df) ELSE df

\* df[df["Team"] == selected_team] behind the "All" test
filterByTeamNaNKept(df, team) ==
    IF team # "All"
    THEN IF "Team" \notin df.cols THEN KeyError
         ELSE [cols |-> df.cols,
               rows |-> SelectSeq(df.rows, LAMBDA r : r.Team \in {team, NaN})]
    ELSE df

filterByTeam(df, team) ==
    IF team # "All"
    THEN IF "Team" \notin df.cols THEN KeyError
         ELSE [cols |-> df.cols,
               rows |-> SelectSeq(df.rows, LAMBDA r : r.Team = team)]
    ELSE df

\* ["All"] + sorted(df["Team"].dropna().unique().tolist())
teams(df) ==
    LET present == {df.rows[i].Team : i \in 1..Len(df.rows)} \ {NaN}
    IN <<"All">> \o SelectSeq(TeamOrder, LAMBDA t : t \in present)

Range(s) == {s[i] : i \in 1..Len(s)}

MinPAs == {min_value, value, max_value}
Selectors == {"All"} \cup TeamNames

\* the seasons the provider serves
Seasons ==
    {MkFrame(AllCols, <<max_value, 50>>, <<"NYY", "BOS">>),
     MkFrame(AllCols, <<value, max_value, 50>>, <<"NYY", NaN, "NYY">>),
     MkFrame(AllCols \ {"OBP"}, <<value>>, <<"BOS">>),
     MkFrame(AllCols \ {"AVG", "G"}, <<value, value>>, <<"BOS", "NYY">>)}

\* options=range(current_year, 1899, -1)
current_year == FirstYear + NumYears - 1
Years == FirstYear..current_year

PlotTypes == {"WAR vs OPS", "HR vs AVG"}

\* the except branch of fetch_data: st.error(...), return pd.DataFrame()
fetch_data_exceptReraise(year) ==
    [ret |-> EmptyFrame, error |-> year, raises |-> TRUE]

fetch_data_except(year) ==
    [ret |-> EmptyFrame, error |-> year, raises |-> FALSE]

\* @st.cache_data(ttl=3600): the entry answering a call with this argument
cache_lookupNoExpiry(c, year) == c[year]

cache_lookup(c, year) ==
    IF c[year] # None /\ c[year].age < ttl THEN c[year] ELSE None

\* the object a boolean-mask selection is bound to: a new frame
IndexedRefView(ref) == ref

IndexedRef(ref) == "fresh"

\* line 49: if not df.empty
line49SkipFilter(d) == IF ~empty(d) THEN "clean" ELSE "show"

line49(d) == IF ~empty(d) THEN "filter" ELSE "show"

Max(S) == CHOOSE x \in S : \A y \in S : y <= x

\* columns the chosen scatter plot reads
plot_cols(plot_type) ==
    IF plot_type = "WAR vs OPS" THEN {"OPS", "WAR", "Team", "Name", "HR"}
    ELSE {"AVG", "HR", "Team", "Name", "WAR"}

\* --------------------------------------------------------------- state
VARIABLES
    pc,             \* the line the script run stands at
    selected_year,  \* sidebar selectbox
    min_pa,         \* sidebar slider
    selected_team,  \* sidebar selectbox, set at line 59
    df,             \* the frame the name df is bound to
    dfRef,          \* the object df names: "fetched" (fetch_data's result) or "fresh"
    fetched,        \* the object fetch_data returned, in its current state
    cache,          \* st.cache_data entries of fetch_data, by year
    st_error,       \* year named by the st.error message of this run, 0 if none
    view,           \* what the run rendered
    steps,          \* history: stages executed in this run
    calls,          \* history: batting_stats calls made by this run's fetch_data
    priorAge,       \* history: age of the year's entry when fetch_data was called, -1 if none
    priorAttempt,   \* history: lastAttempt of the year when fetch_data was called
    lastAttempt,    \* history: by year, how the last batting_stats call ended
    lastResult,     \* history: by year, what the last executed fetch_data returned
    fetchedOrig,    \* history: what fetch_data returned in this run
    sawEmpty,       \* history: this run's frame was empty after fetch or PA filter
    fnIn0,          \* the frame an operation is applied to, as given
    fnIn,           \* the same frame object after the call
    fnOp,           \* the operation applied
    fnArg,          \* its second argument
    fnOut,          \* its result
    fnOut2          \* clean_data applied to its own result

fnVars == <<fnIn0, fnIn, fnOp, fnArg, fnOut, fnOut2>>

runVars == <<pc, selected_year, min_pa, selected_team, df, dfRef, fetched, cache,
             st_error, view, steps, calls, priorAge, priorAttempt, lastAttempt,
             lastResult, fetchedOrig, sawEmpty>>

vars == <<pc, selected_year, min_pa, selected_team, df, dfRef, fetched, cache,
          st_error, view, steps, calls, priorAge, priorAttempt, lastAttempt,
          lastResult, fetchedOrig, sawEmpty,
          fnIn0, fnIn, fnOp, fnArg, fnOut, fnOut2>>

\* ------------------------------------------------------- the script run
RunInit ==
    /\ pc = "idle"
    /\ selected_year = current_year
    /\ min_pa = value
    /\ selected_team = "All"
    /\ df = EmptyFrame
    /\ dfRef = "fresh"
    /\ fetched = EmptyFrame
    /\ cache = [y \in Years |-> None]
    /\ st_error = 0
    /\ view = [kind |-> "none"]
    /\ steps = <<>>
    /\ calls = 0
    /\ priorAge = -1
    /\ priorAttempt = "none"
    /\ lastAttempt = [y \in Years |-> "none"]
    /\ lastResult = [y \in Years |-> None]
    /\ fetchedOrig = EmptyFrame
    /\ sawEmpty = FALSE

FnIdle ==
    /\ fnIn0 = EmptyFrame
    /\ fnIn = EmptyFrame
    /\ fnOp = "none"
    /\ fnArg = 0
    /\ fnOut = None
    /\ fnOut2 = None

Init == RunInit /\ FnIdle

AtRest == pc \in {"idle", "done", "raised"}

\* a user interaction: the script runs again from the top (lines 29-45)
Rerun ==
    /\ AtRest
    /\ \E y \in Years, m \in MinPAs :
         /\ selected_year' = y
         /\ min_pa' = m
    /\ pc' = "fetch"
    /\ selected_team' = "All"
    /\ df' = EmptyFrame
    /\ dfRef' = "fresh"
    /\ fetched' = EmptyFrame
    /\ fetchedOrig' = EmptyFrame
    /\ st_error' = 0
    /\ view' = [kind |-> "none"]
    /\ steps' = <<>>
    /\ calls' = 0
    /\ priorAge' = -1
    /\ priorAttempt' = "none"
    /\ sawEmpty' = FALSE
    /\ UNCHANGED <<cache, lastAttempt, lastResult>>
    /\ UNCHANGED fnVars

\* time passes between runs
Tick ==
    /\ AtRest
    /\ cache' = [y \in Years |->
                   IF cache[y] = None THEN None
                   ELSE [cache[y] EXCEPT !.age =
                            IF @ + TickStep >= ttl THEN ttl ELSE @ + TickStep]]
    /\ UNCHANGED <<pc, selected_year, min_pa, selected_team, df, dfRef, fetched,
                   st_error, view, steps, calls, priorAge, priorAttempt,
                   lastAttempt, lastResult, fetchedOrig, sawEmpty>>
    /\ UNCHANGED fnVars

Called ==
    /\ priorAge' = IF cache[selected_year] = None THEN -1 ELSE cache[selected_year].age
    /\ priorAttempt' = lastAttempt[selected_year]
    /\ steps' = Append(steps, "fetch")

Returned(t) ==
    /\ df' = t
    /\ dfRef' = "fetched"
    /\ fetched' = t
    /\ fetchedOrig' = t
    /\ sawEmpty' = empty(t)
    /\ pc' = line49(t)

\* line 48, answered by the cache: the stored value is handed out as a copy
FetchCached ==
    /\ pc = "fetch"
    /\ cache_lookup(cache, selected_year) # None
    /\ Called
    /\ Returned(cache_lookup(cache, selected_year).value)
    /\ UNCHANGED <<selected_year, min_pa, selected_team, cache, st_error, view,
                   calls, lastAttempt, lastResult>>
    /\ UNCHANGED fnVars

\* line 48, the function body runs and batting_stats returns a table
FetchOk ==
    /\ pc = "fetch"
    /\ cache_lookup(cache, selected_year) = None
    /\ Called
    /\ calls' = calls + 1
    /\ \E t \in Seasons :
         /\ Returned(t)
         /\ cache' = [cache EXCEPT ![selected_year] = [value |-> t, age |-> 0]]
         /\ lastResult' = [lastResult EXCEPT ![selected_year] = t]
    /\ lastAttempt' = [lastAttempt EXCEPT ![selected_year] = "ok"]
    /\ UNCHANGED <<selected_year, min_pa, selected_team, st_error, view>>
    /\ UNCHANGED fnVars

\* line 48, the function body runs and batting_stats raises
FetchFail ==
    /\ pc = "fetch"
    /\ cache_lookup(cache, selected_year) = None
    /\ Called
    /\ calls' = calls + 1
    /\ lastAttempt' = [lastAttempt EXCEPT ![selected_year] = "fail"]
    /\ LET h == fetch_data_except(selected_year)
       IN /\ st_error' = h.error
          /\ IF h.raises
             THEN /\ pc' = "raised"
                  /\ UNCHANGED <<df, dfRef, fetched, fetchedOrig, sawEmpty, cache,
                                 lastResult>>
             ELSE /\ Returned(h.ret)
                  /\ cache' = [cache EXCEPT ![selected_year] =
                                  [value |-> h.ret, age |-> 0]]
                  /\ lastResult' = [lastResult EXCEPT ![selected_year] = h.ret]
    /\ UNCHANGED <<selected_year, min_pa, selected_team, view>>
    /\ UNCHANGED fnVars

\* line 50: df = df[df["PA"] >= min_pa]
FilterPA ==
    /\ pc = "filter"
    /\ steps' = Append(steps, "filterPA")
    /\ LET r == filterByPA(df, min_pa)
       IN IF r = KeyError
          THEN /\ pc' = "raised"
               /\ UNCHANGED <<df, dfRef, sawEmpty>>
          ELSE /\ df' = r
               /\ dfRef' = IndexedRef(dfRef)
               /\ sawEmpty' = empty(r)
               /\ pc' = "clean"
    /\ UNCHANGED <<selected_year, min_pa, selected_team, fetched, cache, st_error,
                   view, calls, priorAge, priorAttempt, lastAttempt, lastResult,
                   fetchedOrig>>
    /\ UNCHANGED fnVars

\* line 51: df = clean_data(df)
Clean ==
    /\ pc \in {"clean"}
    /\ steps' = Append(steps, "clean")
    /\ fetched' = IF dfRef = "fetched" THEN clean_data_arg(fetched) ELSE fetched
    /\ LET r == clean_data(df)
       IN IF r = KeyError
          THEN /\ pc' = "raised"
               /\ UNCHANGED <<df, dfRef>>
          ELSE /\ df' = r
               /\ dfRef' = IF empty(df) THEN dfRef ELSE "fresh"
               /\ pc' = "show"
    /\ UNCHANGED <<selected_year, min_pa, selected_team, cache, st_error, view,
                   calls, priorAge, priorAttempt, lastAttempt, lastResult,
                   fetchedOrig, sawEmpty>>
    /\ UNCHANGED fnVars

\* lines 54-62: header, team options, team filter
TeamFilter ==
    /\ pc = "show"
    /\ ~empty(df)
    /\ steps' = Append(steps, "filterTeam")
    /\ IF "Team" \notin df.cols
       THEN /\ pc' = "raised"
            /\ UNCHANGED <<selected_team, df, dfRef>>
       ELSE \E t \in Range(teams(df)) :
              /\ selected_team' = t
              /\ df' = filterByTeam(df, t)
              /\ dfRef' = IF t # "All" THEN IndexedRef(dfRef) ELSE dfRef
              /\ pc' = "metrics"
    /\ UNCHANGED <<selected_year, min_pa, fetched, cache, st_error, view, calls,
                   priorAge, priorAttempt, lastAttempt, lastResult, fetchedOrig,
                   sawEmpty>>
    /\ UNCHANGED fnVars

\* lines 65-105: metrics, leader table, scatter plot
Present ==
    /\ pc = "metrics"
    /\ steps' = Append(steps, "present")
    /\ \E plot_type \in PlotTypes :
         IF {"WAR", "OPS"} \subseteq df.cols /\ plot_cols(plot_type) \subseteq df.cols
         THEN /\ view' = [kind |-> "leaders",
                          players |-> Len(df.rows),
                          top_war |-> Max({df.rows[i].WAR : i \in 1..Len(df.rows)}),
                          best_ops |-> Max({df.rows[i].OPS : i \in 1..Len(df.rows)}),
                          plot |-> plot_type]
              /\ pc' = "done"
         ELSE /\ view' = [kind |-> "none"]
              /\ pc' = "raised"
    /\ UNCHANGED <<selected_year, min_pa, selected_team, df, dfRef, fetched, cache,
                   st_error, calls, priorAge, priorAttempt, lastAttempt, lastResult,
                   fetchedOrig, sawEmpty>>
    /\ UNCHANGED fnVars

\* lines 107-108: st.warning("No data available for the selected season.")
NoData ==
    /\ pc = "show"
    /\ empty(df)
    /\ steps' = Append(steps, "nodata")
    /\ view' = [kind |-> "nodata"]
    /\ pc' = "done"
    /\ UNCHANGED <<selected_year, min_pa, selected_team, df, dfRef, fetched, cache,
                   st_error, calls, priorAge, priorAttempt, lastAttempt, lastResult,
                   fetchedOrig, sawEmpty>>
    /\ UNCHANGED fnVars

Next ==
    \/ Rerun
    \/ Tick
    \/ FetchCached
    \/ FetchOk
    \/ FetchFail
    \/ FilterPA
    \/ Clean
    \/ TeamFilter
    \/ Present
    \/ NoData

Spec == Init /\ [][Next]_vars

\* ------------------------------------------- the operations on any frame
FnInit ==
    /\ fnIn0 \in Frames
    /\ fnIn = fnIn0
    /\ fnOp = "none"
    /\ fnArg = 0
    /\ fnOut = None
    /\ fnOut2 = None
    /\ RunInit

\* lines 49-50: the plate-appearance filter, skipped on an empty frame
FnFilterPA ==
    /\ fnOp = "none"
    /\ \E m \in MinPAs :
         /\ fnArg' = m
         /\ fnOut' = IF ~empty(fnIn) THEN filterByPA(fnIn, m) ELSE fnIn
    /\ fnOp' = "filterByPA"
    /\ UNCHANGED <<fnIn0, fnIn, fnOut2>>
    /\ UNCHANGED runVars

\* lines 61-62, reached only with a non-empty frame (line 54)
FnFilterTeam ==
    /\ fnOp = "none"
    /\ ~empty(fnIn)
    /\ \E t \in Selectors :
         /\ fnArg' = t
         /\ fnOut' = filterByTeam(fnIn, t)
    /\ fnOp' = "filterByTeam"
    /\ UNCHANGED <<fnIn0, fnIn, fnOut2>>
    /\ UNCHANGED runVars

FnClean ==
    /\ fnOp = "none"
    /\ fnOut' = clean_data(fnIn)
    /\ fnIn' = clean_data_arg(fnIn)
    /\ fnOp' = "clean_data"
    /\ UNCHANGED <<fnIn0, fnArg, fnOut2>>
    /\ UNCHANGED runVars

FnCleanAgain ==
    /\ fnOp = "clean_data"
    /\ IsFrame(fnOut)
    /\ fnOut2' = clean_data(fnOut)
    /\ fnOp' = "clean_data twice"
    /\ UNCHANGED <<fnIn0, fnIn, fnArg, fnOut>>
    /\ UNCHANGED runVars

FnNext == FnFilterPA \/ FnFilterTeam \/ FnClean \/ FnCleanAgain

SpecFn == FnInit /\ [][FnNext]_vars

\* ------------------------------------------------------------ properties
Fetched == steps # <<>>

ThisCallFailed == Fetched /\ calls = 1 /\ lastAttempt[selected_year] = "fail"

Increasing(rows) ==
    \A i, j \in 1..Len(rows) : i < j => rows[i].idx < rows[j].idx

\* C1: when batting_stats raises, fetch_data does not raise: the run shows an
\* error message naming the year and goes on with a table of zero rows.
FetchFailureIsEmptyTable ==
    ThisCallFailed =>
        /\ pc # "raised"
        /\ st_error = selected_year
        /\ Len(fetchedOrig.rows) = 0

FetchFailureSeen == ThisCallFailed /\ pc = "show" /\ st_error = selected_year

\* C2: clean_data on a non-empty frame lacking OBP or SLG returns, without
\* raising, a frame that has no OPS column.
CleanToleratesMissingSource ==
    (fnOp = "clean_data" /\ ~empty(fnIn0) /\ ~({"OBP", "SLG"} \subseteq fnIn0.cols))
        => (IsFrame(fnOut) /\ "OPS" \notin fnOut.cols)

\* C3: clean_data applied to its own result returns that result again.
CleanIdempotent ==
    fnOp = "clean_data twice" => fnOut2 = fnOut

\* C4: fetch_data calls batting_stats at most once, and when the last call for
\* the year failed, the next fetch_data for that year calls batting_stats again.
RetryAfterFailure ==
    Fetched => (calls <= 1 /\ (priorAttempt = "fail" => calls = 1))

\* C5: an entry of the year younger than ttl answers the fetch without a call
\* to batting_stats, with the table stored for that year; with no entry of the
\* year, or an expired one, batting_stats is called.
CacheWindow ==
    Fetched =>
        /\ (priorAge >= 0 /\ priorAge < ttl) =>
               (calls = 0 /\ fetchedOrig = lastResult[selected_year])
        /\ (priorAge = -1 \/ priorAge >= ttl) => calls = 1

CacheHitSeen ==
    /\ Fetched
    /\ calls = 0
    /\ priorAge > 0
    /\ ~empty(fetchedOrig)
    /\ \E y \in Years :
         y # selected_year /\ cache[y] # None /\ cache[y].age < ttl
            /\ cache[y].value # fetchedOrig

\* C6: the plate-appearance filter returns exactly the rows with PA >= min_pa,
\* in input order, with the input's columns, and leaves its input as it was.
PAFilterExact ==
    fnOp = "filterByPA" =>
        /\ IsFrame(fnOut)
        /\ fnOut.cols = fnIn0.cols
        /\ Range(fnOut.rows) \subseteq Range(fnIn0.rows)
        /\ \A r \in Range(fnIn0.rows) : (r \in Range(fnOut.rows)) <=> (r.PA >= fnArg)
        /\ Increasing(fnOut.rows)
        /\ Len(fnOut.rows) = Cardinality(Range(fnOut.rows))
        /\ fnIn = fnIn0

PAFilterSeen ==
    /\ fnOp = "filterByPA"
    /\ IsFrame(fnOut)
    /\ \E r \in Range(fnOut.rows) : r.PA = fnArg
    /\ \E r \in Range(fnIn0.rows) : r.PA < fnArg
    /\ Len(fnOut.rows) >= 2

\* C7: the team filter with "All" returns its input; with another selector it
\* returns exactly the rows whose Team is the selector, in input order, so no
\* row with a null Team.
TeamFilterExact ==
    fnOp = "filterByTeam" =>
        IF fnArg = "All" THEN fnOut = fnIn0
        ELSE /\ IsFrame(fnOut)
             /\ fnOut.cols = fnIn0.cols
             /\ Range(fnOut.rows) \subseteq Range(fnIn0.rows)
             /\ \A r \in Range(fnIn0.rows) :
                    (r \in Range(fnOut.rows)) <=> (r.Team = fnArg)
             /\ \A r \in Range(fnOut.rows) : r.Team # NaN
             /\ Increasing(fnOut.rows)
             /\ Len(fnOut.rows) = Cardinality(Range(fnOut.rows))

TeamFilterSeen ==
    /\ fnOp = "filterByTeam"
    /\ fnArg # "All"
    /\ IsFrame(fnOut)
    /\ Len(fnOut.rows) >= 1
    /\ \E r \in Range(fnIn0.rows) : r.Team = NaN
    /\ \E r \in Range(fnIn0.rows) : r.Team \notin {NaN, fnArg}

\* C8: once the frame is empty, after the fetch or after the plate-appearance
\* filter, it stays empty, no later stage raises, neither the team filter nor
\* the leaders are run, and the run ends in the "no data" state.
EmptyPassesThrough ==
    sawEmpty =>
        /\ pc # "raised"
        /\ empty(df)
        /\ "filterTeam" \notin Range(steps)
        /\ "present" \notin Range(steps)
        /\ pc = "done" => view.kind = "nodata"

EmptyAfterPAFilterSeen ==
    /\ sawEmpty
    /\ pc = "done"
    /\ view.kind = "nodata"
    /\ steps = <<"fetch", "filterPA", "clean", "nodata">>
    /\ ~empty(fetchedOrig)

\* C9: the frame fetch_data returned is never changed by the later stages of
\* the run, the table stored for a year stays the one the last call for that
\* year produced, and a fetch answered by the cache returns that table.
SourceImmutable ==
    /\ Fetched => fetched = fetchedOrig
    /\ \A y \in Years : cache[y] # None => cache[y].value = lastResult[y]
    /\ (Fetched /\ calls = 0) => fetchedOrig = lastResult[selected_year]

SourceReusedSeen ==
    /\ Fetched
    /\ calls = 0
    /\ pc = "done"
    /\ view.kind = "leaders"
    /\ "OPS" \in df.cols
    /\ "OPS" \notin fetched.cols
    /\ Len(df.rows) < Len(fetched.rows)

\* C10 as stated: no filter step of a run comes before the run's deriver step.
DeriverBeforeFilters ==
    \A i \in 1..Len(steps) :
        steps[i] \in {"filterPA", "filterTeam"} =>
            \E j \in 1..(i - 1) : steps[j] = "clean"

IsPrefix(s, t) == Len(s) <= Len(t) /\ \A i \in 1..Len(s) : s[i] = t[i]

\* C10 amended: the stages of a run come in the order fetch, plate-appearance
\* filter, deriver, team filter, presentation; an empty frame goes from the
\* fetch, or from the deriver, straight to the "no data" presentation.
PipelineOrder ==
    \/ IsPrefix(steps, <<"fetch", "filterPA", "clean", "filterTeam", "present">>)
    \/ IsPrefix(steps, <<"fetch", "filterPA", "clean", "nodata">>)
    \/ IsPrefix(steps, <<"fetch", "nodata">>)

FullRunSeen ==
    /\ steps = <<"fetch", "filterPA", "clean", "filterTeam", "present">>
    /\ pc = "done"
    /\ selected_team # "All"
====
